---- MODULE Spec2Model ----
(***************************************************************************)
(* A2A multi-agent routing layer: the JSON-RPC dispatcher                  *)
(* (shared/server.py, A2AServer) and the Task Manager / Task Store it      *)
(* routes to.  The dispatcher is translated from shared/server.py.  The    *)
(* Task Manager (agents/claude_cli/base_cli_task_manager.py) and the Task  *)
(* Store (shared/task_manager.py) are not part of the source tree; they    *)
(* are modelled from sections 4.2 and 4.5 of the specification and from    *)
(* the unit tests that drive them.                                         *)
(***************************************************************************)
EXTENDS Integers, Sequences, FiniteSets, TLC

\* ------------------------------------------------------------------ bounds
MaxHttp  == 1      \* HTTP requests received in one run of SpecHttp
MaxCalls == 2      \* direct Task Manager calls in one run of SpecTM
MaxParts == 2      \* parts in one inbound message
MaxItems == 2      \* items an agent stream yields before it ends
MaxStreams == 2    \* message/send requests in one run of SpecStream

\* ------------------------------------------------------- JSON-RPC vocabulary
ABSENT == "ABSENT"          \* a key that is missing from a JSON object
NULL   == "NULL"            \* Python None / JSON null

PARSE_ERROR      == "PARSE_ERROR"
INVALID_REQUEST  == "INVALID_REQUEST"
METHOD_NOT_FOUND == "METHOD_NOT_FOUND"
INVALID_PARAMS   == "INVALID_PARAMS"
INTERNAL_ERROR   == "INTERNAL_ERROR"
TASK_NOT_FOUND   == "TASK_NOT_FOUND"
NO_ERROR         == "NO_ERROR"

ValidationErrors == {PARSE_ERROR, INVALID_REQUEST, METHOD_NOT_FOUND, INVALID_PARAMS}

LegacyMethods ==
  {"tasks/get", "tasks/send", "tasks/sendSubscribe", "tasks/cancel",
   "tasks/pushNotification/set", "tasks/pushNotification/get",
   "tasks/resubscribe"}

KnownMethods == LegacyMethods \cup {"message/send"}

\* The request type A2ARequest.validate_python / the manual parse produces.
RequestType(method) ==
  CASE method = "tasks/get"                  -> "GetTaskRequest"
    [] method = "tasks/send"                 -> "SendTaskRequest"
    [] method = "tasks/sendSubscribe"        -> "SendTaskStreamingRequest"
    [] method = "tasks/cancel"               -> "CancelTaskRequest"
    [] method = "tasks/pushNotification/set" -> "SetTaskPushNotificationRequest"
    [] method = "tasks/pushNotification/get" -> "GetTaskPushNotificationRequest"
    [] method = "tasks/resubscribe"          -> "TaskResubscriptionRequest"
    [] method = "message/send"               -> "A2AMessageSendRequest"
    [] OTHER                                 -> "NONE"

\* The isinstance chain of _process_request: request type -> handler.
HandlerFor(type) ==
  CASE type = "A2AMessageSendRequest"          -> "on_a2a_message_send"
    [] type = "GetTaskRequest"                 -> "on_get_task"
    [] type = "SendTaskRequest"                -> "on_send_task"
    [] type = "SendTaskStreamingRequest"       -> "on_send_task_subscribe"
    [] type = "CancelTaskRequest"              -> "on_cancel_task"
    [] type = "SetTaskPushNotificationRequest" -> "on_set_task_push_notification"
    [] type = "GetTaskPushNotificationRequest" -> "on_get_task_push_notification"
    [] type = "TaskResubscriptionRequest"      -> "on_resubscribe_to_task"
    [] OTHER                                   -> "NONE"

\* ------------------------------------------------------------ request bodies
PartKinds == {"text", "file"}

PartSeqs == UNION {[1..n -> PartKinds] : n \in 0..MaxParts}

TaskIds == {"t1", "t2"}

NoMessage == [shape |-> ABSENT, parts |-> <<>>, taskId |-> ABSENT]

\* params.message of a message/send body: missing, not an object, or an
\* object with its parts and its optional taskId.
Messages ==
  {NoMessage, [shape |-> "nonobject", parts |-> <<>>, taskId |-> ABSENT]}
  \cup {[shape |-> "object", parts |-> ps, taskId |-> t] :
          ps \in PartSeqs, t \in {ABSENT, "t1"}}

NoParams == [shape |-> ABSENT, wellShaped |-> FALSE, message |-> NoMessage]

\* params of a legacy tasks/* body: missing, not an object (a list), or an
\* object that passes / fails the shape validation of its request type.
LegacyParams ==
  {NoParams, [shape |-> "nonobject", wellShaped |-> FALSE, message |-> NoMessage]}
  \cup {[shape |-> "object", wellShaped |-> w, message |-> NoMessage] : w \in BOOLEAN}

SendParams ==
  {NoParams, [shape |-> "nonobject", wellShaped |-> FALSE, message |-> NoMessage]}
  \cup {[shape |-> "object", wellShaped |-> TRUE, message |-> m] : m \in Messages}

BodyIds == {ABSENT, "id1"}

NoBody == [kind |-> "none", id |-> ABSENT, method |-> ABSENT, params |-> NoParams]

\* What request.json() meets: bytes that are no JSON text ("malformed"),
\* bytes that cannot be decoded as text ("undecodable"), a JSON value that
\* is no object ("nonobject"), or a JSON object.
Bodies ==
  {[kind |-> k, id |-> ABSENT, method |-> ABSENT, params |-> NoParams] :
      k \in {"malformed", "undecodable", "nonobject"}}
  \cup {[kind |-> "object", id |-> i, method |-> m, params |-> p] :
          i \in BodyIds, m \in LegacyMethods \cup {"bogus/method", ABSENT},
          p \in LegacyParams}
  \cup {[kind |-> "object", id |-> i, method |-> "message/send", params |-> p] :
          i \in BodyIds, p \in SendParams}

\* ------------------------------------------------------------- the task store
TaskStates    == {"submitted", "working", "input-required", "completed", "failed", "canceled"}
TerminalStates == {"completed", "failed", "canceled"}

\* A task as the Task Store holds it.  history lists the request slots whose
\* user message was appended, in append order.
NoTask == [state |-> "none", artifacts |-> <<>>, message |-> ABSENT, history |-> <<>>]

\* The id the unified entry point gives a task when the message carries none.
GenId(r) == "gen" \o ToString(r)

\* ------------------------------------------------- responses and typed requests
NoResp == [kind |-> "none", status |-> 0, id |-> NULL, error |-> NO_ERROR, task |-> NoTask]

JsonError(id, code, status) ==
  [kind |-> "json", status |-> status, id |-> id, error |-> code, task |-> NoTask]

JsonResult(id, task) ==
  [kind |-> "json", status |-> 200, id |-> id, error |-> NO_ERROR, task |-> task]

\* acceptedOutputModes of a request: not given, or the list given.
NoModes    == [given |-> FALSE, set |-> {}]
Modes(set) == [given |-> TRUE, set |-> set]

NoCall == [type |-> "NONE", id |-> NULL, tid |-> ABSENT, parts |-> <<>>,
           modes |-> NoModes]

\* ------------------------------------------------------------ the dispatcher
\* request.json(): json.loads raises JSONDecodeError on text that is no JSON
\* and UnicodeDecodeError on bytes that are no text.
ReadJson(b) ==
  CASE b.kind = "malformed"   -> "JSONDecodeError"
    [] b.kind = "undecodable" -> "UnicodeDecodeError"
    [] OTHER                  -> "ok"

\* body.get('method'), body.keys(), body.get('params', {}).keys(): a body or
\* a params value that is no object has no get()/keys() and raises.
LoggingRaises(b) == b.kind = "nonobject" \/ b.params.shape = "nonobject"

\* body.get('id'): None when the key is missing.
IdOf(b) == IF b.id = ABSENT THEN NULL ELSE b.id

\* body.get('id', 'auto')
IdOrAuto(b) == IF b.id = ABSENT THEN "auto" ELSE b.id

\* The loop over message_data.get('parts', []): only parts of kind text are
\* appended.
TextOnly(ps) == SelectSeq(ps, LAMBDA k : k = "text")

\* message_data.get(...) raises when params.message is no object.
ManualParseRaises(b) == b.params.message.shape = "nonobject"

\* The A2AMessageSendRequest the manual parse builds: id, role, parts and
\* messageId are copied; taskId and contextId are not read.
ManualParse(b) ==
  [type  |-> "A2AMessageSendRequest",
   id    |-> IdOrAuto(b),
   tid   |-> ABSENT,
   parts |-> TextOnly(b.params.message.parts),
   modes |-> NoModes]

\* params.id of a well-shaped legacy request.
LegacyTaskId == "t1"

\* A2ARequest.validate_python(body): the closed union of legacy request shapes.
Validates(b) ==
  b.method \in LegacyMethods /\ b.params.shape = "object" /\ b.params.wellShaped

\* The imports inside _process_request (lines 101 and 137) make
\* A2AMessageSendRequest, InvalidRequestError and JSONRPCResponse local names
\* of the function.  Line 101 runs only on the message/send branch, line 137
\* only in that branch's except clause: on the other branch the names are
\* unbound when lines 152 and 161 read them.
LocalNamesBound(b) == b.method = "message/send"

\* _handle_exception
HandleException(exc) ==
  CASE exc = "JSONDecodeError" -> JsonError(NULL, PARSE_ERROR, 400)
    [] exc = "ValidationError" -> JsonError(NULL, INVALID_REQUEST, 400)
    [] OTHER                   -> JsonError(NULL, INTERNAL_ERROR, 400)

Answer(exc, stage, type, response) ==
  [invoke |-> FALSE, exc |-> exc, stage |-> stage, parsed |-> type,
   handler |-> "NONE", request |-> NoCall, resp |-> response]

Route(type, request) ==
  [invoke |-> TRUE, exc |-> "none", stage |-> "none", parsed |-> type,
   handler |-> HandlerFor(type), request |-> request, resp |-> NoResp]

\* _process_request up to the await of the Task Manager handler.
Dispatch(b) ==
  IF ReadJson(b) # "ok" THEN
      Answer(ReadJson(b), "read", "NONE", HandleException(ReadJson(b)))
  ELSE IF LoggingRaises(b) THEN
      Answer("AttributeError", "validate", "NONE", HandleException("AttributeError"))
  ELSE IF b.method = "message/send" THEN
      IF ManualParseRaises(b)
      THEN Answer("none", "none", "NONE", JsonError(IdOf(b), INVALID_REQUEST, 400))
      ELSE Route("A2AMessageSendRequest", ManualParse(b))
  ELSE IF Validates(b) THEN
      IF LocalNamesBound(b)
      THEN Route(RequestType(b.method),
                 [type |-> RequestType(b.method), id |-> IdOf(b),
                  tid |-> LegacyTaskId, parts |-> <<>>, modes |-> NoModes])
      ELSE Answer("UnboundLocalError", "dispatch", RequestType(b.method),
                  HandleException("UnboundLocalError"))
  ELSE
      IF LocalNamesBound(b)
      THEN Answer("none", "none", "NONE", JsonError(IdOf(b), INVALID_REQUEST, 400))
      ELSE Answer("UnboundLocalError", "validate", "NONE",
                  HandleException("UnboundLocalError"))

\* ---------------------------------------------------------------- the state
VARIABLES
  pc,        \* slot -> where the request stands
  via,       \* slot -> "http" (POST to the endpoint) or "direct" (handler call)
  body,      \* slot -> the POST body
  parsed,    \* slot -> the request type validation produced, or "NONE"
  call,      \* slot -> the typed request handed to the Task Manager
  invoked,   \* slot -> the handlers invoked for the request, in order
  outcome,   \* slot -> what the agent collaborator did for the request
  result,    \* slot -> what the handler returned (or raised)
  resp,      \* slot -> what the client / caller received
  yielded,   \* slot -> the items the handler's sequence has yielded, in order
  frames,    \* slot -> the data frames of the event stream, in order
  raisedAt,  \* slot -> the stage at which an exception was raised, or "none"
  before,    \* slot -> the stored task when the handler started
  written,   \* slot -> the status.state values the handler wrote, in order
  tasks,     \* task id -> the stored task
  edges,     \* the <<from, to>> changes of status.state made in the store
  arrival,   \* the slots in arrival order
  push,      \* task id -> the push-notification URL registered for it
  pushLog,   \* slot -> what the request did about push notifications
  agent_card, \* the A2AServer's agent_card attribute
  served,    \* the documents the agent-card routes have returned, in order
  run,       \* slot -> an agent invocation: its agent, its position, its items
  loop,      \* the invocation executing on the event loop without suspending, or 0
  games_db,  \* game id -> the stored tic-tac-toe game, or NoGame
  last       \* the last tic-tac-toe request and its HTTP status

vars == <<pc, via, body, parsed, call, invoked, outcome, result, resp, yielded,
          frames, raisedAt, before, written, tasks, edges, arrival, push, pushLog,
         agent_card, served, run, loop, games_db, last>>

extVars == <<agent_card, served, run, loop, games_db, last>>

reqVars == <<via, body, parsed, call, invoked>>

HttpSlots == 1..MaxHttp
CallSlots == 1..MaxCalls

Slots == DOMAIN pc

\* JSON-RPC id and agent content of the request in slot r.
RpcId(r)     == "id" \o ToString(r)
ContentOf(r) == "c" \o ToString(r)

NoOutcome == [kind |-> "none", complete |-> FALSE, input |-> FALSE,
              content |-> ABSENT, escalated |-> FALSE]

\* What a request did about push notifications: the URL it asked to register,
\* the outcome of the URL verification ("none", "ok", "failed"), what
\* set_push_notification_info returned ("none", "true", "false"), the config
\* the task had when the request looked at it, and the notifications it
\* attempted, in order, each with its outcome and the status.state it carried.
NoPushLog == [url |-> ABSENT, verified |-> "none", returned |-> "none",
              before |-> ABSENT, sent |-> <<>>]

PushUrls == {"u1", "u2"}

InitOver(S, how) ==
  /\ pc       = [r \in S |-> "idle"]
  /\ via      = [r \in S |-> how]
  /\ body     = [r \in S |-> NoBody]
  /\ parsed   = [r \in S |-> "NONE"]
  /\ call     = [r \in S |-> NoCall]
  /\ invoked  = [r \in S |-> <<>>]
  /\ outcome  = [r \in S |-> NoOutcome]
  /\ result   = [r \in S |-> NoResp]
  /\ resp     = [r \in S |-> NoResp]
  /\ yielded  = [r \in S |-> <<>>]
  /\ frames   = [r \in S |-> <<>>]
  /\ raisedAt = [r \in S |-> "none"]
  /\ before   = [r \in S |-> NoTask]
  /\ written  = [r \in S |-> <<>>]
  /\ tasks    = [t \in TaskIds \cup {GenId(r) : r \in S} |-> NoTask]
  /\ edges    = {}
  /\ arrival  = <<>>
  /\ push     = [t \in TaskIds \cup {GenId(r) : r \in S} |-> ABSENT]
  /\ pushLog  = [r \in S |-> NoPushLog]

\* ------------------------------------------------------------ agent card
MaxGets == 2       \* GETs of the agent-card routes in one run of SpecCard
MaxCardPosts == 1  \* POSTs to the endpoint in one run of SpecCard

\* The AgentCard handed to A2AServer: optional fields are NULL when not set.
Cards == [name : {"frontend", "backend"}, description : {NULL, "d"}]
DefaultCard == [name |-> "frontend", description |-> NULL]

\* The two GET routes, both registered to _get_agent_card.
AgentCardRoutes == {"/.well-known/agent.json", "/.well-known/agent-card.json"}

\* model_dump(exclude_none=True): the fields that are set.
ModelDump(c) == [k \in {f \in DOMAIN c : c[f] # NULL} |-> c[k]]

\* A server whose newer route serves a card of its own.
CardOfRoute(route, card) ==
  IF route = "/.well-known/agent-card.json"
  THEN [card EXCEPT !.description = "card"]
  ELSE card

\* The card a route's handler reads: self.agent_card, whatever the route.
CardServed(route, card) == card

\* ---------------------------------------------------------- initial values
NoRequest == [op |-> "none", game |-> "none", code |-> 0, detail |-> "none"]
GameIds == {"g1"}
Cells == (0..2) \X (0..2)
create_empty_board == [c \in Cells |-> ""]
NoGame == [exists |-> FALSE, board |-> create_empty_board, current_player |-> "X",
           status |-> "in_progress", winner |-> NULL, moves_count |-> 0]

InitExt ==
  /\ agent_card = DefaultCard
  /\ served = <<>>
  /\ run = <<>>
  /\ loop = 0
  /\ games_db = [g \in GameIds |-> NoGame]
  /\ last = NoRequest

InitHttp == InitOver(HttpSlots, "http") /\ InitExt
InitTM   == InitOver(CallSlots, "direct") /\ InitExt
InitStream == InitOver(1..MaxStreams, "http") /\ InitExt

\* ------------------------------------------------- Task Store (section 4.2)
\* upsert(task): a task id seen for the first time is created in submitted.
Upsert(ts, tid) ==
  IF ts[tid].state = "none"
  THEN [ts EXCEPT ![tid] = [NoTask EXCEPT !.state = "submitted"]]
  ELSE ts

\* The optional artifacts argument of setStatus.
NoArtifacts  == [given |-> FALSE, list |-> <<>>]
Artifacts(l) == [given |-> TRUE, list |-> l]

\* setStatus that adds the given artifacts to the ones the task already has.
SetStatusAppending(ts, tid, state, message, arts) ==
  [ts EXCEPT ![tid] = [@ EXCEPT !.state = state,
                                !.message = message,
                                !.artifacts = IF arts.given THEN @ \o arts.list ELSE @]]

\* setStatus(id, status, artifacts?): status (state and message) is replaced;
\* artifacts are set when given and kept otherwise.
SetStatus(ts, tid, state, message, arts) ==
  [ts EXCEPT ![tid] = [@ EXCEPT !.state = state,
                                !.message = message,
                                !.artifacts = IF arts.given THEN arts.list ELSE @]]

\* appendHistory(id, message)
AppendHistory(ts, tid, r) ==
  [ts EXCEPT ![tid] = [@ EXCEPT !.history = Append(@, r)]]

\* The record of one change of status.state.
LogEdge(e, from, to) == IF from = to THEN e ELSE e \cup {<<from, to>>}

\* ------------------------------------- Task Manager / Agent Adapter (4.5)
SendTypes   == {"SendTaskRequest", "A2AMessageSendRequest"}
StreamTypes == {"SendTaskStreamingRequest", "A2AMessageSendRequest"}
DirectTypes == SendTypes \cup {"CancelTaskRequest", "GetTaskRequest"}

\* The task a typed request works on: the id it names, or a generated one.
TidFor(r, req) == IF req.tid = ABSENT THEN GenId(r) ELSE req.tid
TidOf(r)       == TidFor(r, call[r])

RaisedResult(exc) ==
  [kind |-> "raise", status |-> 0, id |-> NULL, error |-> exc, task |-> NoTask]

StreamResult(id) ==
  [kind |-> "stream", status |-> 0, id |-> id, error |-> NO_ERROR, task |-> NoTask]

\* The responses agent.invoke_async returns: exactly one of is_task_complete
\* and require_user_input is set.
InvokeResults == {[complete |-> TRUE, input |-> FALSE],
                  [complete |-> FALSE, input |-> TRUE]}

\* The items agent.stream yields: progress items with neither flag, and a
\* last item shaped like an invoke result.
StreamItems == InvokeResults \cup {[complete |-> FALSE, input |-> FALSE]}

\* _create_response, inside the try of _process_request: a response object
\* becomes one JSON body, an async sequence an event stream; an exception of
\* the handler goes to _handle_exception.
CreateResponse(res) ==
  CASE res.kind = "json"   -> [res EXCEPT !.status = 200]
    [] res.kind = "stream" -> [res EXCEPT !.status = 200]
    [] OTHER               -> HandleException(res.error)

\* item.model_dump_json(exclude_none=True): the JSON text of a response
\* object; fields that are None (a null id, the absent error) are left out,
\* the transport fields are not part of it.
ModelDumpJson(item) ==
  [id     |-> IF item.id = NULL THEN ABSENT ELSE item.id,
   error  |-> IF item.error = NO_ERROR THEN ABSENT ELSE item.error,
   result |-> item.task]

\* event_generator with a frame that marks the end of the stream after a
\* task that has left working.
EventGeneratorWithEndMarker(fs, item) ==
  IF item.task.state = "working"
  THEN Append(fs, [data |-> ModelDumpJson(item)])
  ELSE fs \o <<[data |-> ModelDumpJson(item)], [data |-> ModelDumpJson(NoResp)]>>

\* event_generator: one frame {"data": <JSON of the item>} per item pulled.
EventGenerator(fs, item) == Append(fs, [data |-> ModelDumpJson(item)])

\* What the party that issued the request receives for a handler result: the
\* HTTP client the response _create_response builds, a direct caller the
\* result (or the exception) itself.
Deliver(r, res) == IF via[r] = "http" THEN CreateResponse(res) ELSE res

\* The setup shared by on_send_task, on_send_task_subscribe and
\* on_a2a_message_send: create/fetch the task, set it working, append the
\* inbound user message to its history.
Setup(r, req) ==
  LET tid == TidFor(r, req)
      t0  == tasks[tid]
      ts1 == Upsert(tasks, tid)
      ts2 == AppendHistory(SetStatus(ts1, tid, "working", ABSENT, NoArtifacts), tid, r)
  IN  /\ tasks'   = ts2
      /\ edges'   = LogEdge(LogEdge(edges, t0.state, ts1[tid].state),
                            ts1[tid].state, "working")
      /\ before'  = [before EXCEPT ![r] = t0]
      /\ written' = [written EXCEPT ![r] = Append(@, "working")]

\* on_send_task / on_a2a_message_send up to the await of agent.invoke_async,
\* where the handler suspends.
StartSend(r, req) ==
  /\ req.type \in SendTypes
  /\ Setup(r, req)
  /\ pc' = [pc EXCEPT ![r] = "agent"]
  /\ UNCHANGED <<outcome, result, resp, frames>>

\* on_send_task_subscribe / the unified streaming path: the same setup, then
\* the handler returns the lazy sequence without having pulled from it.
StartStream(r, req) ==
  /\ req.type \in StreamTypes
  /\ Setup(r, req)
  /\ result' = [result EXCEPT ![r] = StreamResult(req.id)]
  /\ resp'   = [resp EXCEPT ![r] = Deliver(r, StreamResult(req.id))]
  /\ pc' = [pc EXCEPT ![r] = "streaming"]
  /\ UNCHANGED <<outcome, frames>>

\* on_cancel_task: Task-Not-Found for an unknown id; a task in working
\* becomes canceled; any other task is read back as it is.
StartCancel(r, req) ==
  /\ req.type = "CancelTaskRequest"
  /\ LET tid == TidFor(r, req)
         ts  == IF tasks[tid].state = "working"
                THEN SetStatus(tasks, tid, "canceled", ABSENT, NoArtifacts)
                ELSE tasks
         res == IF tasks[tid].state = "none"
                THEN JsonError(req.id, TASK_NOT_FOUND, 0)
                ELSE JsonResult(req.id, ts[tid])
     IN  /\ tasks'   = ts
         /\ edges'   = LogEdge(edges, tasks[tid].state, ts[tid].state)
         /\ written' = [written EXCEPT ![r] =
                          IF tasks[tid].state = "working" THEN Append(@, "canceled") ELSE @]
         /\ before'  = [before EXCEPT ![r] = tasks[tid]]
         /\ result'  = [result EXCEPT ![r] = res]
         /\ resp'    = [resp EXCEPT ![r] = Deliver(r, res)]
  /\ pc' = [pc EXCEPT ![r] = "done"]
  /\ UNCHANGED <<outcome, frames>>

\* on_get_task: a Task Store read.
StartGet(r, req) ==
  /\ req.type = "GetTaskRequest"
  /\ LET tid == TidFor(r, req)
         res == IF tasks[tid].state = "none"
                THEN JsonError(req.id, TASK_NOT_FOUND, 0)
                ELSE JsonResult(req.id, tasks[tid])
     IN  /\ before' = [before EXCEPT ![r] = tasks[tid]]
         /\ result' = [result EXCEPT ![r] = res]
         /\ resp'   = [resp EXCEPT ![r] = Deliver(r, res)]
  /\ pc' = [pc EXCEPT ![r] = "done"]
  /\ UNCHANGED <<outcome, frames, written, tasks, edges>>

\* The handler named h starts on the typed request req and runs to its first
\* suspension or to its return.
RunHandler(r, h, req) ==
  \/ h \in {"on_send_task", "on_a2a_message_send"}           /\ StartSend(r, req)
  \/ h \in {"on_send_task_subscribe", "on_a2a_message_send"} /\ StartStream(r, req)
  \/ h = "on_cancel_task"                                    /\ StartCancel(r, req)
  \/ h = "on_get_task"                                       /\ StartGet(r, req)

\* A caller (a test, another component) invokes a one-shot Task Manager
\* handler with a typed request, the agent's invoke_async being the
\* collaborator interface in use.
CallHandler(r) ==
  /\ pc[r] = "idle" /\ via[r] = "direct"
  /\ \E type \in DirectTypes, tid \in TaskIds :
       LET req == [type |-> type, id |-> RpcId(r), tid |-> tid,
                   parts |-> <<"text">>, modes |-> NoModes]
       IN  /\ call'    = [call EXCEPT ![r] = req]
           /\ parsed'  = [parsed EXCEPT ![r] = type]
           /\ invoked' = [invoked EXCEPT ![r] = Append(@, HandlerFor(type))]
           /\ \/ StartSend(r, req)
              \/ StartCancel(r, req)
              \/ StartGet(r, req)
  /\ arrival' = Append(arrival, r)
  /\ UNCHANGED <<via, body, raisedAt, yielded, push, pushLog>>
  /\ UNCHANGED extVars

\* set_push_notification_info that stores the config before the URL is
\* verified.
SetPushInfoUnverified(p, tid, url, ok) == [p EXCEPT ![tid] = url]

\* The store's push config after set_push_notification_info(tid, url), ok
\* being what verify_push_notification_url answered.
SetPushInfo(p, tid, url, ok) == IF ok THEN [p EXCEPT ![tid] = url] ELSE p

\* set_push_notification_info(task_id, config): the URL is verified; the
\* config is stored and True returned when it verifies, False otherwise.
SetPushNotificationInfo(r) ==
  /\ pc[r] = "idle" /\ via[r] = "direct"
  /\ \E tid \in TaskIds, url \in PushUrls, ok \in BOOLEAN :
       /\ call'    = [call EXCEPT ![r] = [type |-> "SetPushNotificationInfo",
                                          id |-> RpcId(r), tid |-> tid, parts |-> <<>>,
                                          modes |-> NoModes]]
       /\ invoked' = [invoked EXCEPT ![r] = Append(@, "set_push_notification_info")]
       /\ push'    = SetPushInfo(push, tid, url, ok)
       /\ pushLog' = [pushLog EXCEPT ![r] =
                        [url |-> url,
                         verified |-> IF ok THEN "ok" ELSE "failed",
                         returned |-> IF ok THEN "true" ELSE "false",
                         before |-> push[tid], sent |-> <<>>]]
  /\ pc' = [pc EXCEPT ![r] = "done"]
  /\ arrival' = Append(arrival, r)
  /\ UNCHANGED <<via, body, parsed, outcome, result, resp, yielded, frames,
                 raisedAt, before, written, tasks, edges>>
  /\ UNCHANGED extVars

\* The agent's SUPPORTED_CONTENT_TYPES and the output modes a caller may name.
SUPPORTED_CONTENT_TYPES == {"text", "text/plain"}
OutputModes == {"text/plain", "image"}

CONTENT_TYPE_NOT_SUPPORTED == "CONTENT_TYPE_NOT_SUPPORTED"

\* _validate_request that takes an empty acceptedOutputModes list as no
\* restriction.
ValidateRequestLenient(modes) ==
  IF modes.set # {} /\ modes.set \cap SUPPORTED_CONTENT_TYPES = {}
  THEN CONTENT_TYPE_NOT_SUPPORTED
  ELSE NO_ERROR

\* _validate_request: the Incompatible-Content-Types error when the requested
\* output modes are given and disjoint from the supported content types.
ValidateRequest(modes) ==
  IF modes.given /\ modes.set \cap SUPPORTED_CONTENT_TYPES = {}
  THEN CONTENT_TYPE_NOT_SUPPORTED
  ELSE NO_ERROR

\* on_send_task called with a request that may name acceptedOutputModes: the
\* request is validated first; a rejected request is answered with the error
\* and nothing else happens.
SendTaskWithModes(r) ==
  /\ pc[r] = "idle" /\ via[r] = "direct"
  /\ \E tid \in TaskIds, m \in {NoModes} \cup {Modes(x) : x \in SUBSET OutputModes} :
       LET req == [type |-> "SendTaskRequest", id |-> RpcId(r), tid |-> tid,
                   parts |-> <<"text">>, modes |-> m]
           err == ValidateRequest(m)
       IN  /\ call'    = [call EXCEPT ![r] = req]
           /\ parsed'  = [parsed EXCEPT ![r] = req.type]
           /\ invoked' = [invoked EXCEPT ![r] = Append(@, "on_send_task")]
           /\ IF err = NO_ERROR
              THEN StartSend(r, req)
              ELSE /\ result' = [result EXCEPT ![r] = JsonError(req.id, err, 0)]
                   /\ resp'   = [resp EXCEPT ![r] = Deliver(r, JsonError(req.id, err, 0))]
                   /\ pc'     = [pc EXCEPT ![r] = "done"]
                   /\ UNCHANGED <<outcome, frames, before, written, tasks, edges>>
  /\ arrival' = Append(arrival, r)
  /\ UNCHANGED <<via, body, raisedAt, yielded, push, pushLog>>
  /\ UNCHANGED extVars

\* The status an agent response maps to: completed with one artifact built
\* from the content when is_task_complete, otherwise input-required with an
\* agent message carrying the content.
StatusFor(complete, content) ==
  IF complete
  THEN [state |-> "completed", message |-> ABSENT, arts |-> Artifacts(<<content>>)]
  ELSE [state |-> "input-required", message |-> content, arts |-> NoArtifacts]

\* send_task_notification that does not ask whether a config is registered.
NotifyAlways(p, tid) == {"delivered", "failed"}

\* send_task_notification(task): nothing is sent when the task has no push
\* config; otherwise one delivery is attempted, which succeeds or fails.
NotifyOutcomes(p, tid) ==
  IF p[tid] = ABSENT THEN {"none"} ELSE {"delivered", "failed"}

\* The push log of a handler after send_task_notification for a task in
\* status.state state, the task's config being cfg.
Notified(log, cfg, d, state) ==
  [log EXCEPT !.before = cfg,
              !.sent   = IF d = "none" THEN @
                         ELSE Append(@, [how |-> d, state |-> state])]

\* A delivery failure that reaches the caller of the handler.
Surface(res, d) == IF d = "failed" THEN RaisedResult("NotificationError") ELSE res

\* A delivery failure is logged and swallowed: the handler's result is the
\* same whatever the delivery did.
Swallow(res, d) == res

\* agent.invoke_async returned: the handler settles the task in the store,
\* attempts the push notification and answers with the task.
AgentReturn(r) ==
  /\ pc[r] = "agent"
  /\ \E a \in InvokeResults :
       LET tid == TidOf(r)
           st  == StatusFor(a.complete, ContentOf(r))
           ts  == SetStatus(tasks, tid, st.state, st.message, st.arts)
       IN  \E d \in NotifyOutcomes(push, tid) :
           LET res == Swallow(JsonResult(call[r].id, ts[tid]), d) IN
           /\ pushLog' = [pushLog EXCEPT ![r] = Notified(@, push[tid], d, ts[tid].state)]
           /\ tasks'   = ts
           /\ edges'   = LogEdge(edges, tasks[tid].state, st.state)
           /\ written' = [written EXCEPT ![r] = Append(@, st.state)]
           /\ outcome' = [outcome EXCEPT ![r] =
                            [kind |-> "return", complete |-> a.complete,
                             input |-> a.input, content |-> ContentOf(r),
                             escalated |-> FALSE]]
           /\ result'  = [result EXCEPT ![r] = res]
           /\ resp'    = [resp EXCEPT ![r] = Deliver(r, res)]
  /\ pc' = [pc EXCEPT ![r] = "done"]
  /\ UNCHANGED <<reqVars, yielded, frames, raisedAt, before, arrival, push>>
  /\ UNCHANGED extVars

\* agent.invoke_async raised.  on_send_task re-raises (ValueError "Error
\* invoking agent"); on_a2a_message_send answers with an error response.  The
\* task is left in working or escalated to failed.
\* A handler that lets the agent's exception out whatever the request.
Reraise(req) == RaisedResult("ValueError")

\* What a send handler does with an exception of the agent call: on_send_task
\* re-raises it as ValueError, on_a2a_message_send answers with an error
\* response for the request.
OnAgentError(req) ==
  IF req.type = "SendTaskRequest"
  THEN RaisedResult("ValueError")
  ELSE JsonError(req.id, INTERNAL_ERROR, 0)

AgentRaise(r) ==
  /\ pc[r] = "agent"
  /\ \E esc \in BOOLEAN :
       LET tid == TidOf(r)
           res == OnAgentError(call[r])
       IN  /\ tasks'   = IF esc
                         THEN SetStatus(tasks, tid, "failed", ABSENT, NoArtifacts)
                         ELSE tasks
           /\ edges'   = IF esc THEN LogEdge(edges, tasks[tid].state, "failed")
                                ELSE edges
           /\ written' = [written EXCEPT ![r] = IF esc THEN Append(@, "failed") ELSE @]
           /\ outcome' = [outcome EXCEPT ![r] =
                            [kind |-> "raise", complete |-> FALSE, input |-> FALSE,
                             content |-> ABSENT, escalated |-> esc]]
           /\ result'  = [result EXCEPT ![r] = res]
           /\ resp'    = [resp EXCEPT ![r] = Deliver(r, res)]
  /\ raisedAt' = [raisedAt EXCEPT ![r] = "handler"]
  /\ pc' = [pc EXCEPT ![r] = "done"]
  /\ UNCHANGED <<reqVars, yielded, frames, before, arrival, push, pushLog>>
  /\ UNCHANGED extVars

\* event_generator driven by something that outlives the response.
PullingDetached(r) == pc[r] = "streaming" \/ resp[r].kind = "disconnected"

\* event_generator advances only while the event-stream response iterates it.
Pulling(r) == pc[r] = "streaming"

\* One pull of the stream (event_generator's async for, or the direct
\* caller's): the agent's stream yields an item, the Task Manager updates the
\* task status from it and forwards it as one event.  An item that signals
\* completion or asks for input is the last one.
StreamItem(r) ==
  /\ Pulling(r)
  /\ \E a \in StreamItems :
       LET final == a.complete \/ a.input
           tid   == TidOf(r)
           st    == IF final THEN StatusFor(a.complete, ContentOf(r))
                    ELSE [state |-> "working", message |-> ContentOf(r),
                          arts |-> NoArtifacts]
           ts    == SetStatus(tasks, tid, st.state, st.message, st.arts)
       IN  /\ final \/ Len(frames[r]) + 1 < MaxItems
           /\ tasks'   = ts
           /\ edges'   = LogEdge(edges, tasks[tid].state, st.state)
           /\ written' = [written EXCEPT ![r] = Append(@, st.state)]
           /\ yielded' = [yielded EXCEPT ![r] = Append(@, JsonResult(call[r].id, ts[tid]))]
           /\ frames'  = [frames EXCEPT ![r] =
                            EventGenerator(@, JsonResult(call[r].id, ts[tid]))]
           /\ outcome' = [outcome EXCEPT ![r] =
                            IF final
                            THEN [kind |-> "return", complete |-> a.complete,
                                  input |-> a.input, content |-> ContentOf(r),
                                  escalated |-> FALSE]
                            ELSE @]
           /\ pc' = [pc EXCEPT ![r] = IF final THEN "done" ELSE "streaming"]
  /\ UNCHANGED <<reqVars, result, resp, raisedAt, before, arrival, push, pushLog>>
  /\ UNCHANGED extVars

\* The sequence raises while producing its next item.  event_generator has no
\* handler and runs after _process_request has returned: the exception ends
\* the stream without a further frame.
StreamRaise(r) ==
  /\ Pulling(r)
  /\ raisedAt' = [raisedAt EXCEPT ![r] = "stream"]
  /\ resp' = [resp EXCEPT ![r] = [@ EXCEPT !.kind = "aborted"]]
  /\ pc' = [pc EXCEPT ![r] = "done"]
  /\ UNCHANGED <<reqVars, outcome, result, yielded, frames, before, written,
                 tasks, edges, arrival, push, pushLog>>
  /\ UNCHANGED extVars

\* The client closes the connection of an event stream: the response stops
\* iterating event_generator, which is finalised where it is suspended.
Disconnect(r) ==
  /\ pc[r] = "streaming"
  /\ resp' = [resp EXCEPT ![r] = [@ EXCEPT !.kind = "disconnected"]]
  /\ pc' = [pc EXCEPT ![r] = "done"]
  /\ UNCHANGED <<reqVars, outcome, result, yielded, frames, raisedAt, before,
                 written, tasks, edges, arrival, push, pushLog>>
  /\ UNCHANGED extVars

\* ------------------------------------------------------ A2AServer, HTTP side
\* _process_request for one POST: read the body, parse, validate, pick the
\* handler and run it to its first suspension, or answer with the error
\* response.
ProcessRequestOf(r, B) ==
  /\ pc[r] = "idle" /\ via[r] = "http"
  /\ \E b \in B :
       LET d == Dispatch(b) IN
       /\ body'     = [body EXCEPT ![r] = b]
       /\ parsed'   = [parsed EXCEPT ![r] = d.parsed]
       /\ raisedAt' = [raisedAt EXCEPT ![r] = d.stage]
       /\ IF d.invoke
          THEN /\ invoked' = [invoked EXCEPT ![r] = Append(@, d.handler)]
               /\ call'    = [call EXCEPT ![r] = d.request]
               /\ RunHandler(r, d.handler, d.request)
          ELSE /\ resp'    = [resp EXCEPT ![r] = d.resp]
               /\ pc'      = [pc EXCEPT ![r] = "done"]
               /\ UNCHANGED <<invoked, call, outcome, result, frames, before,
                              written, tasks, edges>>
  /\ arrival' = Append(arrival, r)
  /\ UNCHANGED <<via, yielded, push, pushLog>>
  /\ UNCHANGED extVars

\* A POST with any body.
ProcessRequest(r) == ProcessRequestOf(r, Bodies)

\* A POST of a message/send request with one text part, with or without id.
StreamBodies ==
  {b \in Bodies : /\ b.method = "message/send"
                  /\ b.params.message.shape = "object"
                  /\ b.params.message.parts = <<"text">>
                  /\ b.params.message.taskId = ABSENT}

MessageSend(r) == ProcessRequestOf(r, StreamBodies)

\* ------------------------------------------------------------ specifications
\* The server as its clients see it: every request is a POST to the endpoint.
NextHttp ==
  \/ \E r \in Slots : ProcessRequest(r)
  \/ \E r \in Slots : AgentReturn(r)
  \/ \E r \in Slots : AgentRaise(r)
  \/ \E r \in Slots : StreamItem(r)
  \/ \E r \in Slots : StreamRaise(r)
  \/ \E r \in Slots : Disconnect(r)

SpecHttp == InitHttp /\ [][NextHttp]_vars

\* The server under message/send requests only, the requests that reach a
\* handler and may be answered with an event stream.
NextStream ==
  \/ \E r \in Slots : MessageSend(r)
  \/ \E r \in Slots : AgentReturn(r)
  \/ \E r \in Slots : AgentRaise(r)
  \/ \E r \in Slots : StreamItem(r)
  \/ \E r \in Slots : StreamRaise(r)
  \/ \E r \in Slots : Disconnect(r)

SpecStream == InitStream /\ [][NextStream]_vars

\* The Task Manager as its callers see it: handlers are invoked with typed
\* requests and run concurrently, suspending at the agent call.
NextTM ==
  \/ \E r \in Slots : CallHandler(r)
  \/ \E r \in Slots : AgentReturn(r)
  \/ \E r \in Slots : AgentRaise(r)

SpecTM == InitTM /\ [][NextTM]_vars

\* The Task Manager with push-notification registrations among the calls.
NextPush ==
  \/ \E r \in Slots : SetPushNotificationInfo(r)
  \/ \E r \in Slots : CallHandler(r)
  \/ \E r \in Slots : AgentReturn(r)
  \/ \E r \in Slots : AgentRaise(r)

SpecPush == InitTM /\ [][NextPush]_vars

\* GET /.well-known/agent.json and GET /.well-known/agent-card.json.
GetAgentCard(route) ==
  /\ Len(served) < MaxGets
  /\ served' = Append(served, [route |-> route,
                               doc |-> ModelDump(CardServed(route, agent_card))])
  /\ UNCHANGED <<pc, via, body, parsed, call, invoked, outcome, result, resp,
                 yielded, frames, raisedAt, before, written, tasks, edges,
                 arrival, push, pushLog, agent_card, run, loop, games_db, last>>

InitCard ==
  /\ InitOver(1..MaxCardPosts, "http")
  /\ agent_card \in Cards
  /\ served = <<>>
  /\ run = <<>> /\ loop = 0
  /\ games_db = [g \in GameIds |-> NoGame] /\ last = NoRequest

\* The server under POSTs to the endpoint and GETs of the agent-card routes.
NextCard ==
  \/ \E route \in AgentCardRoutes : GetAgentCard(route)
  \/ \E r \in Slots : MessageSend(r)
  \/ \E r \in Slots : AgentReturn(r)
  \/ \E r \in Slots : AgentRaise(r)
  \/ \E r \in Slots : StreamItem(r)
  \/ \E r \in Slots : StreamRaise(r)
  \/ \E r \in Slots : Disconnect(r)

SpecCard == InitCard /\ [][NextCard]_vars

\* ------------------------------------------------------- agent invocations
MaxRuns == 2        \* agent invocations in one run of SpecAgents
MaxGraphSteps == 1  \* progress items one weather graph run yields

CliAgents == {"frontend", "backend"}
Agents    == CliAgents \cup {"weather"}

\* An agent response: is_task_complete, require_user_input, content; raised
\* tells a call that ended in an exception instead of a response.
Response(c, i, content) ==
  [raised |-> FALSE, complete |-> c, input |-> i, content |-> content]
NoResponse == [raised |-> FALSE, complete |-> FALSE, input |-> FALSE, content |-> ABSENT]
Raised(exc) == [raised |-> TRUE, complete |-> FALSE, input |-> FALSE, content |-> exc]

\* What the Claude CLI subprocess can do: fail to start, or start and then
\* exit with a code and its two outputs, outlive the timeout, or fail.
NoProc == [kind |-> "none", code |-> 0, stdout |-> "", stderr |-> ""]
SpawnFailures == {[kind |-> k, code |-> 0, stdout |-> "", stderr |-> ""] :
                    k \in {"FileNotFoundError", "Exception"}}
CommunicateOutcomes ==
  [kind : {"exit"}, code : {0, 1}, stdout : {"", "out"}, stderr : {"", "err"}]
  \cup {[kind |-> k, code |-> 0, stdout |-> "", stderr |-> ""] :
          k \in {"TimeoutError", "Exception"}}

TimeoutMessage(agent) ==
  IF agent = "frontend" THEN "Claude CLI request timed out after 60 seconds"
                        ELSE "Claude CLI request timed out after 10 minutes"

\* invoke_claude_cli without the except branch for the timeout.
InvokeClaudeCliNoTimeoutBranch(agent, o) ==
  CASE o.kind = "exit" /\ o.code # 0 ->
         Response(FALSE, TRUE, IF o.stderr # "" THEN "Error from Claude CLI: err"
                                                ELSE "Error from Claude CLI: Unknown error")
    [] o.kind = "exit" /\ o.code = 0 -> Response(TRUE, FALSE, o.stdout)
    [] o.kind = "TimeoutError" -> Raised("TimeoutError")
    [] o.kind = "FileNotFoundError" -> Response(FALSE, TRUE, "Claude CLI not found")
    [] OTHER -> Response(FALSE, TRUE, "Error invoking Claude CLI")

\* invoke_claude_cli: the response for each outcome of the subprocess.
InvokeClaudeCli(agent, o) ==
  CASE o.kind = "exit" /\ o.code # 0 ->
         Response(FALSE, TRUE, IF o.stderr # "" THEN "Error from Claude CLI: err"
                                                ELSE "Error from Claude CLI: Unknown error")
    [] o.kind = "exit" /\ o.code = 0 -> Response(TRUE, FALSE, o.stdout)
    [] o.kind = "TimeoutError" -> Response(FALSE, TRUE, TimeoutMessage(agent))
    [] o.kind = "FileNotFoundError" -> Response(FALSE, TRUE, "Claude CLI not found")
    [] OTHER -> Response(FALSE, TRUE, "Error invoking Claude CLI")

Progress(agent) == Response(FALSE, FALSE, "Processing request with Claude CLI...")

\* A stream that starts with the call and yields nothing before it.
StreamHeadEmpty(agent) == <<>>

\* What a CLI agent's stream yields before it awaits invoke_async.
StreamHead(agent) == <<Progress(agent)>>

\* get_agent_response of the weather agent.
WeatherResponses ==
  {Response(TRUE, FALSE, "weather"), Response(FALSE, TRUE, "Unable to get weather information")}

NoRun == [agent |-> "none", how |-> "none", pc |-> "idle", items |-> <<>>,
          ret |-> NoResponse, proc |-> NoProc]

InProgress(r) == run[r].pc \in {"spawn", "communicate", "graph"}

agentFrame == <<pc, via, body, parsed, call, invoked, outcome, result, resp,
                yielded, frames, raisedAt, before, written, tasks, edges,
                arrival, push, pushLog, agent_card, served, games_db, last>>

\* invoke_async or stream of an agent is called and runs to its first await.
\* A CLI agent's stream has yielded its progress item and the call stands
\* before create_subprocess_exec; the weather agent has entered the
\* synchronous loop over graph.stream.
Invoke(r) ==
  /\ run[r].pc = "idle" /\ loop = 0
  /\ \E agent \in Agents, how \in {"invoke", "stream"} :
       IF agent \in CliAgents
       THEN /\ run' = [run EXCEPT ![r] =
                         [@ EXCEPT !.agent = agent, !.how = how, !.pc = "spawn",
                                   !.items = IF how = "stream" THEN StreamHead(agent)
                                                               ELSE <<>>]]
            /\ loop' = 0
       ELSE /\ run' = [run EXCEPT ![r] =
                         [@ EXCEPT !.agent = agent, !.how = how, !.pc = "graph"]]
            /\ loop' = r
  /\ UNCHANGED agentFrame

\* The end of invoke_claude_cli: invoke_async returns the response, and a
\* stream yields it as its last item.
Finish(r, o) ==
  LET res == InvokeClaudeCli(run[r].agent, o) IN
  run' = [run EXCEPT ![r] =
            [@ EXCEPT !.pc = "done", !.proc = o, !.ret = res,
                      !.items = IF run[r].how = "stream" /\ ~res.raised
                                THEN Append(@, res) ELSE @]]

\* await asyncio.create_subprocess_exec(...): the process starts, or the
\* call raises.
Spawn(r) ==
  /\ run[r].pc = "spawn" /\ loop = 0
  /\ \/ run' = [run EXCEPT ![r].pc = "communicate"]
     \/ \E o \in SpawnFailures : Finish(r, o)
  /\ UNCHANGED <<agentFrame, loop>>

\* await asyncio.wait_for(process.communicate(), timeout): the process exits,
\* the timeout fires, or the wait raises.
Communicate(r) ==
  /\ run[r].pc = "communicate" /\ loop = 0
  /\ \E o \in CommunicateOutcomes : Finish(r, o)
  /\ UNCHANGED <<agentFrame, loop>>

\* One iteration of `for item in self.graph.stream(...)` that yields a
\* progress item: the generator is resumed at once, no await in between.
GraphStep(r) ==
  /\ run[r].pc = "graph" /\ loop = r
  /\ Len(run[r].items) < MaxGraphSteps
  /\ run' = [run EXCEPT ![r].items =
               Append(@, Response(FALSE, FALSE, "Looking up weather information..."))]
  /\ UNCHANGED <<agentFrame, loop>>

\* graph.stream is exhausted: get_agent_response, the last item.
GraphEnd(r) ==
  /\ run[r].pc = "graph" /\ loop = r
  /\ \E res \in WeatherResponses :
       run' = [run EXCEPT ![r] =
                 [@ EXCEPT !.pc = "done", !.ret = res, !.items = Append(@, res)]]
  /\ loop' = 0
  /\ UNCHANGED agentFrame

InitAgents ==
  /\ InitOver({}, "direct")
  /\ run = [r \in 1..MaxRuns |-> NoRun]
  /\ loop = 0
  /\ agent_card = DefaultCard /\ served = <<>>
  /\ games_db = [g \in GameIds |-> NoGame] /\ last = NoRequest

\* The agents on one event loop.
NextAgents ==
  \/ \E r \in DOMAIN run : Invoke(r)
  \/ \E r \in DOMAIN run : Spawn(r)
  \/ \E r \in DOMAIN run : Communicate(r)
  \/ \E r \in DOMAIN run : GraphStep(r)
  \/ \E r \in DOMAIN run : GraphEnd(r)

SpecAgents == InitAgents /\ [][NextAgents]_vars

\* ------------------------------------------------------- tic-tac-toe API
MinAiMarks == 3   \* marks on the board of a game before ai-move is requested

Players == {"X", "O"}

\* check_winner: the rows, the columns, the diagonal, then the cells (0,2),
\* (1,0), (2,1), in this order; the first line held by one player wins.
Lines ==
  << <<<<0,0>>, <<0,1>>, <<0,2>>>>, <<<<1,0>>, <<1,1>>, <<1,2>>>>,
     <<<<2,0>>, <<2,1>>, <<2,2>>>>,
     <<<<0,0>>, <<1,0>>, <<2,0>>>>, <<<<0,1>>, <<1,1>>, <<2,1>>>>,
     <<<<0,2>>, <<1,2>>, <<2,2>>>>,
     <<<<0,0>>, <<1,1>>, <<2,2>>>>,
     <<<<0,2>>, <<1,0>>, <<2,1>>>> >>

Held(board, l) ==
  /\ board[l[1]] # ""
  /\ board[l[1]] = board[l[2]] /\ board[l[2]] = board[l[3]]

RECURSIVE FirstHeld(_, _)
FirstHeld(board, i) ==
  IF i > Len(Lines) THEN NULL
  ELSE IF Held(board, Lines[i]) THEN board[Lines[i][1]]
  ELSE FirstHeld(board, i + 1)

check_winner(board) == FirstHeld(board, 1)

is_board_full(board) == \A c \in Cells : board[c] # ""

get_game_status(board) ==
  LET winner == check_winner(board)
  IN  IF winner = "X" THEN <<"x_wins", "X">>
      ELSE IF winner = "O" THEN <<"o_wins", "O">>
      ELSE IF is_board_full(board) THEN <<"draw", NULL>>
      ELSE <<"in_progress", NULL>>

\* A MoveRequest: row and col are any integers, player is a Player value,
\* the empty one included.
Moves == [row : -1..3, col : -1..3, player : {"X", "O", ""}]

\* make_move with no check of the game's status.
MoveErrorIgnoringStatus(game, move) ==
  IF ~game.exists THEN "not_found"
  ELSE IF move.row < 0 \/ move.row > 2 \/ move.col < 0 \/ move.col > 2 THEN "range"
  ELSE IF game.board[<<move.row, move.col>>] # "" THEN "occupied"
  ELSE IF move.player # game.current_player THEN "turn"
  ELSE "ok"

\* make_move: the checks before anything is written, in the code's order.
MoveError(game, move) ==
  IF ~game.exists THEN "not_found"
  ELSE IF game.status # "in_progress" THEN "finished"
  ELSE IF move.row < 0 \/ move.row > 2 \/ move.col < 0 \/ move.col > 2 THEN "range"
  ELSE IF game.board[<<move.row, move.col>>] # "" THEN "occupied"
  ELSE IF move.player # game.current_player THEN "turn"
  ELSE "ok"

StatusCode(detail) ==
  IF detail = "ok" THEN 200 ELSE IF detail = "not_found" THEN 404 ELSE 400

\* make_move that leaves the turn with the player who moved.
ApplyMoveKeepingTurn(game, move) ==
  LET board == [game.board EXCEPT ![<<move.row, move.col>>] = move.player]
      st    == get_game_status(board)
  IN  [game EXCEPT !.board = board, !.moves_count = @ + 1,
                   !.status = st[1], !.winner = st[2]]

\* make_move: the writes of an accepted move.
ApplyMove(game, move) ==
  LET board == [game.board EXCEPT ![<<move.row, move.col>>] = move.player]
      st    == get_game_status(board)
  IN  [game EXCEPT !.board = board, !.moves_count = @ + 1,
                   !.status = st[1], !.winner = st[2],
                   !.current_player =
                      IF st[1] = "in_progress"
                      THEN (IF game.current_player = "X" THEN "O" ELSE "X")
                      ELSE @]

Empty(board) == {c \in Cells : board[c] = ""}
MaxOf(S) == CHOOSE x \in S : \A y \in S : y <= x
MinOf(S) == CHOOSE x \in S : \A y \in S : x <= y

\* minimax of get_ai_move: max_eval (min_eval) over the empty cells.
RECURSIVE minimax(_, _, _, _)
minimax(board, depth, is_maximizing, player) ==
  LET opponent == IF player = "O" THEN "X" ELSE "O"
      winner   == check_winner(board)
  IN  IF winner = player THEN 10 - depth
      ELSE IF winner = opponent THEN depth - 10
      ELSE IF is_board_full(board) THEN 0
      ELSE IF is_maximizing
           THEN MaxOf({minimax([board EXCEPT ![c] = player], depth + 1, FALSE, player) :
                         c \in Empty(board)})
           ELSE MinOf({minimax([board EXCEPT ![c] = opponent], depth + 1, TRUE, player) :
                         c \in Empty(board)})

\* The cell get_ai_move plays: the first cell in the order of
\* `for i in range(3): for j in range(3)` with the best score (a later cell
\* replaces best_move only with a strictly greater score).
RowMajor(c) == 3 * c[1] + c[2]
best_move(board, ai_player) ==
  LET scored == {<<minimax([board EXCEPT ![c] = ai_player], 0, FALSE, ai_player), c>> :
                   c \in Empty(board)}
      best   == MaxOf({p[1] : p \in scored})
      cands  == {p[2] : p \in {q \in scored : q[1] = best}}
  IN  CHOOSE c \in cands : \A d \in cands : RowMajor(c) <= RowMajor(d)

tttFrame == <<pc, via, body, parsed, call, invoked, outcome, result, resp,
              yielded, frames, raisedAt, before, written, tasks, edges,
              arrival, push, pushLog, agent_card, served, run, loop>>

Answer400(op, g, detail) ==
  last' = [op |-> op, game |-> g, code |-> StatusCode(detail), detail |-> detail]

\* POST /games/new
create_new_game ==
  /\ \E g \in GameIds :
       /\ ~games_db[g].exists
       /\ games_db' = [games_db EXCEPT ![g] = [NoGame EXCEPT !.exists = TRUE]]
       /\ Answer400("create", g, "ok")
  /\ UNCHANGED tttFrame

\* The body of make_move, for the route and for get_ai_move's call.
MakeMoveAs(op, g, move) ==
  LET detail == MoveError(games_db[g], move) IN
  /\ games_db' = IF detail = "ok"
                 THEN [games_db EXCEPT ![g] = ApplyMove(@, move)]
                 ELSE games_db
  /\ Answer400(op, g, detail)

\* POST /games/{game_id}/move
make_move(g) ==
  /\ \E move \in Moves : MakeMoveAs("move", g, move)
  /\ UNCHANGED tttFrame

\* GET /games/{game_id}/ai-move, requested of a game in progress once it has
\* MinAiMarks marks.
get_ai_move(g) ==
  /\ (games_db[g].exists /\ games_db[g].status = "in_progress") =>
       games_db[g].moves_count >= MinAiMarks
  /\ IF ~games_db[g].exists
     THEN games_db' = games_db /\ Answer400("ai", g, "not_found")
     ELSE IF games_db[g].status # "in_progress"
     THEN games_db' = games_db /\ Answer400("ai", g, "finished")
     ELSE LET c == best_move(games_db[g].board, games_db[g].current_player)
          IN  MakeMoveAs("ai", g, [row |-> c[1], col |-> c[2],
                                   player |-> games_db[g].current_player])
  /\ UNCHANGED tttFrame

\* POST /games/{game_id}/reset
reset_game(g) ==
  /\ IF ~games_db[g].exists
     THEN games_db' = games_db /\ Answer400("reset", g, "not_found")
     ELSE /\ games_db' = [games_db EXCEPT ![g] = [NoGame EXCEPT !.exists = TRUE]]
          /\ Answer400("reset", g, "ok")
  /\ UNCHANGED tttFrame

\* DELETE /games/{game_id}
delete_game(g) ==
  /\ IF ~games_db[g].exists
     THEN games_db' = games_db /\ Answer400("delete", g, "not_found")
     ELSE /\ games_db' = [games_db EXCEPT ![g] = NoGame]
          /\ Answer400("delete", g, "ok")
  /\ UNCHANGED tttFrame

InitTTT ==
  /\ InitOver({}, "direct")
  /\ games_db = [g \in GameIds |-> NoGame]
  /\ last = NoRequest
  /\ agent_card = DefaultCard /\ served = <<>>
  /\ run = <<>> /\ loop = 0

NextTTT ==
  \/ create_new_game
  \/ \E g \in GameIds : make_move(g)
  \/ \E g \in GameIds : get_ai_move(g)
  \/ \E g \in GameIds : reset_game(g)
  \/ \E g \in GameIds : delete_game(g)

SpecTTT == InitTTT /\ [][NextTTT]_vars

\* on_send_task under requests that name their accepted output modes.
NextValidate ==
  \/ \E r \in Slots : SendTaskWithModes(r)
  \/ \E r \in Slots : AgentReturn(r)
  \/ \E r \in Slots : AgentRaise(r)

SpecValidate == InitTM /\ [][NextValidate]_vars

TypeOK ==
  /\ \A r \in Slots : pc[r] \in {"idle", "agent", "streaming", "done"}
  /\ \A t \in DOMAIN tasks : tasks[t].state \in TaskStates \cup {"none"}

\* ===================================================================== claims
\* ---------------------------------------------------------------------- C1
\* C1: every request that passes validation has exactly one Task Manager
\* handler invoked for it, the one that corresponds to its method, and the
\* client receives that handler's result.
C1_RoutedToItsHandler ==
  \A r \in Slots :
    (pc[r] # "idle" /\ parsed[r] # "NONE") =>
      /\ invoked[r] = <<HandlerFor(parsed[r])>>
      /\ (pc[r] = "done" /\ result[r].kind = "json") => resp[r] = CreateResponse(result[r])

\* ---------------------------------------------------------------------- C2
\* C2: a POST whose body is not valid JSON is answered with the Parse-Error
\* code and a null id.
C2_ParseErrorNullId ==
  \A r \in Slots :
    (pc[r] = "done" /\ body[r].kind \in {"malformed", "undecodable"}) =>
      /\ resp[r].kind = "json"
      /\ resp[r].error = PARSE_ERROR
      /\ resp[r].id = NULL

\* ---------------------------------------------------------------------- C3
\* C3: a well-formed JSON-RPC request whose method is not a known method is
\* answered with METHOD_NOT_FOUND.
C3_MethodNotFound ==
  \A r \in Slots :
    (/\ pc[r] = "done"
     /\ body[r].kind = "object"
     /\ body[r].method \notin KnownMethods \cup {ABSENT}
     /\ body[r].params.shape = "object") =>
      resp[r].error = METHOD_NOT_FOUND

\* ---------------------------------------------------------------------- C4
\* C4: every request ends in a JSON-RPC body or an event stream; an exception
\* raised at any stage (reading, validating, dispatching, in the handler,
\* producing stream items) reaches the client as an error response (the
\* Internal-Error code, or the Parse-Error code for a JSON syntax error) and
\* never escapes.
C4_ExceptionsAnswered ==
  \A r \in Slots :
    (pc[r] = "done" /\ raisedAt[r] # "none") =>
      /\ resp[r].kind = "json"
      /\ resp[r].error \in {INTERNAL_ERROR, PARSE_ERROR}

\* ---------------------------------------------------------------------- C5
\* C5: every response to a request whose body parsed as a JSON object carries
\* that request's id; the id is null only when the request carried none.
C5_IdEchoed ==
  \A r \in Slots :
    (pc[r] = "done" /\ body[r].kind = "object" /\ resp[r].kind = "json") =>
      resp[r].id = IdOf(body[r])

\* ---------------------------------------------------------------------- C6
\* C6: status.state changes only along submitted -> working,
\* working -> {input-required, completed, failed, canceled} and
\* input-required -> working (a task being created in submitted).
AllowedEdges ==
  {<<"none", "submitted">>, <<"submitted", "working">>,
   <<"input-required", "working">>}
  \cup {<<"working", s>> : s \in {"input-required", "completed", "failed", "canceled"}}

C6_StateMachine == edges \subseteq AllowedEdges

C8_InputRequiredNoArtifact ==
  \A r \in Slots :
    (/\ call[r].type \in SendTypes
     /\ pc[r] = "done"
     /\ outcome[r].kind = "return"
     /\ ~outcome[r].complete /\ outcome[r].input) =>
      /\ resp[r].task.state = "input-required"
      /\ resp[r].task.message = outcome[r].content
      /\ resp[r].task.artifacts = <<>>

\* ---------------------------------------------------------------------- C9
\* C9: when the agent raises during on_send_task, the caller gets an
\* Internal-Error (the handler's exception) and the stored task is in the
\* state it had before the call.
Alone(r) == \A q \in Slots \ {r} : pc[q] = "idle" \/ TidOf(q) # TidOf(r)

C9_AgentErrorKeepsState ==
  \A r \in Slots :
    (/\ call[r].type = "SendTaskRequest"
     /\ pc[r] = "done"
     /\ outcome[r].kind = "raise"
     /\ Alone(r)) =>
      /\ resp[r].kind = "raise" \/ resp[r].error = INTERNAL_ERROR
      /\ tasks[TidOf(r)].state = before[r].state

\* --------------------------------------------------------------------- C10
\* The whole effect of the request in slot r on the store when nothing else
\* runs between its start and its end, with the agent outcome it had.
ApplyRequest(ts, r) ==
  LET tid == TidOf(r) IN
  CASE call[r].type = "GetTaskRequest" -> ts
    [] call[r].type = "CancelTaskRequest" ->
         IF ts[tid].state = "working"
         THEN SetStatus(ts, tid, "canceled", ABSENT, NoArtifacts)
         ELSE ts
    [] OTHER ->
         LET begun == AppendHistory(SetStatus(Upsert(ts, tid), tid, "working",
                                              ABSENT, NoArtifacts), tid, r)
             st    == StatusFor(outcome[r].complete, outcome[r].content)
         IN  IF outcome[r].kind = "return"
             THEN SetStatus(begun, tid, st.state, st.message, st.arts)
             ELSE IF outcome[r].escalated
                  THEN SetStatus(begun, tid, "failed", ABSENT, NoArtifacts)
                  ELSE begun

RECURSIVE SequentialRun(_, _)
SequentialRun(ts, order) ==
  IF order = <<>> THEN ts
  ELSE SequentialRun(ApplyRequest(ts, Head(order)), Tail(order))

AllSettled == \A r \in Slots : pc[r] \in {"idle", "done"}

\* C10: concurrent requests on one task id are applied in arrival order: once
\* they have all finished, the stored tasks are what running the requests one
\* after the other in arrival order leaves.
C10_ArrivalOrder ==
  AllSettled =>
    tasks = SequentialRun([t \in DOMAIN tasks |-> NoTask], arrival)

\* --------------------------------------------------------------------- C11
\* C11: the event stream of a handler that returned a sequence holds exactly
\* one data frame per item the sequence has yielded, frame i being the JSON
\* of item i, with nothing added, dropped, duplicated or reordered and no end
\* marker; a stream that ended normally ended because the sequence completed.
C11_FramesMatchItems ==
  \A r \in Slots :
    resp[r].kind \in {"stream", "aborted", "disconnected"} =>
      /\ frames[r] = [i \in 1..Len(yielded[r]) |-> [data |-> ModelDumpJson(yielded[r][i])]]
      /\ (pc[r] = "done" /\ resp[r].kind = "stream") => outcome[r].kind = "return"

C11_Witness ==
  \E r \in Slots :
    /\ pc[r] = "done" /\ resp[r].kind = "stream"
    /\ Len(yielded[r]) >= 2
    /\ Len(frames[r]) = Len(yielded[r])

\* --------------------------------------------------------------------- C12
\* C12: in every streaming run that the server ended, no event before the
\* last carries a terminal status.state and the last event carries one
\* (completed, failed or canceled), whatever the agent's stream did.
C12_TerminalLastEvent ==
  \A r \in Slots :
    (pc[r] = "done" /\ resp[r].kind \in {"stream", "aborted"}) =>
      /\ frames[r] # <<>>
      /\ frames[r][Len(frames[r])].data.result.state \in TerminalStates
      /\ \A i \in 1..(Len(frames[r]) - 1) :
           frames[r][i].data.result.state \notin TerminalStates

HasNonTextPart(b) ==
  /\ b.kind = "object" /\ b.method = "message/send"
  /\ b.params.message.shape = "object"
  /\ \E i \in 1..Len(b.params.message.parts) : b.params.message.parts[i] # "text"

\* C14: a message/send request whose message has a part that is not of kind
\* text is rejected with an error response and no handler works on the
\* remaining parts.
C14_NonTextPartRejected ==
  \A r \in Slots :
    (pc[r] # "idle" /\ HasNonTextPart(body[r])) =>
      /\ invoked[r] = <<>>
      /\ resp[r].kind = "json"
      /\ resp[r].error # NO_ERROR

\* --------------------------------------------------------------------- C15
HasNoMessage(b) ==
  /\ b.kind = "object" /\ b.method = "message/send"
  /\ b.params.shape = "object"
  /\ b.params.message.shape = ABSENT

\* C15: a message/send request whose params hold no message is answered with
\* INVALID_PARAMS or INVALID_REQUEST.
C15_EmptyParamsRejected ==
  \A r \in Slots :
    (pc[r] = "done" /\ HasNoMessage(body[r])) =>
      /\ resp[r].kind = "json"
      /\ resp[r].error \in {INVALID_PARAMS, INVALID_REQUEST}

\* --------------------------------------------------------------------- C16
IllShaped(b) ==
  \/ b.kind = "nonobject"
  \/ b.kind = "object" /\ b.params.shape = "nonobject"
  \/ /\ b.kind = "object" /\ b.method \in LegacyMethods
     /\ b.params.shape = "object" /\ ~b.params.wellShaped

\* C16: a body that is valid JSON but no well-shaped request (no JSON object,
\* params that is no object, a tasks/* method whose params fail validation)
\* is answered with the Invalid-Request code.
C16_IllShapedIsInvalidRequest ==
  \A r \in Slots :
    (pc[r] = "done" /\ IllShaped(body[r])) =>
      /\ resp[r].kind = "json"
      /\ resp[r].error = INVALID_REQUEST

\* --------------------------------------------------------------------- C17
\* C17: a request answered with a validation error had no handler invoked,
\* and a request with a missing message or an unsupported part never reaches
\* a handler.
C17_ValidationBeforeHandlers ==
  \A r \in Slots :
    /\ (pc[r] = "done" /\ resp[r].error \in ValidationErrors) => invoked[r] = <<>>
    /\ (HasNoMessage(body[r]) \/ HasNonTextPart(body[r])) => invoked[r] = <<>>

\* --------------------------------------------------------------------- C18
\* C18: set_push_notification_info returns false and leaves the push config
\* of every task as it was when the URL verification fails; it returns true
\* and stores the config when the verification succeeds.
C18_PushConfigOnlyWhenVerified ==
  [][\A r \in Slots :
       (pc[r] = "idle" /\ call'[r].type = "SetPushNotificationInfo") =>
         /\ pushLog'[r].verified = "failed" =>
              pushLog'[r].returned = "false" /\ push' = push
         /\ pushLog'[r].verified = "ok" =>
              /\ pushLog'[r].returned = "true"
              /\ push' = [push EXCEPT ![call'[r].tid] = pushLog'[r].url]]_vars

C18_Witness ==
  \E r \in Slots :
    /\ call[r].type = "SetPushNotificationInfo"
    /\ pushLog[r].verified = "failed" /\ pushLog[r].returned = "false"
    /\ pushLog[r].before # ABSENT
    /\ pushLog[r].url # pushLog[r].before
    /\ push[call[r].tid] = pushLog[r].before

\* --------------------------------------------------------------------- C19
\* C19: when on_send_task settles a task, exactly one notification is
\* attempted if the task has a push config, carrying the settled status, and
\* none if it has no config; in both cases the handler answers normally.
C19_OneNotificationWhenRegistered ==
  \A r \in Slots :
    (call[r].type = "SendTaskRequest" /\ outcome[r].kind = "return") =>
      /\ resp[r].kind = "json"
      /\ pushLog[r].before = ABSENT => pushLog[r].sent = <<>>
      /\ pushLog[r].before # ABSENT =>
           /\ Len(pushLog[r].sent) = 1
           /\ pushLog[r].sent[1].state = written[r][Len(written[r])]

C19_Witness ==
  \E r \in Slots :
    /\ pc[r] = "done"
    /\ call[r].type = "SendTaskRequest" /\ outcome[r].kind = "return"
    /\ pushLog[r].before # ABSENT
    /\ Len(pushLog[r].sent) = 1
    /\ pushLog[r].sent[1].state = "completed"

\* --------------------------------------------------------------------- C20
\* C20: a failed delivery of the push notification changes neither the stored
\* task nor the response of the handler: both are what the settling of the
\* task alone produces.
C20_DeliveryFailureSwallowed ==
  [][\A r \in Slots :
       (/\ pc[r] = "agent" /\ pc'[r] = "done"
        /\ call[r].type = "SendTaskRequest"
        /\ outcome'[r].kind = "return"
        /\ pushLog'[r].sent # <<>>
        /\ pushLog'[r].sent[1].how = "failed") =>
         LET tid == TidOf(r)
             st  == StatusFor(outcome'[r].complete, outcome'[r].content)
             ts  == SetStatus(tasks, tid, st.state, st.message, st.arts)
         IN  /\ tasks' = ts
             /\ resp'[r] = JsonResult(call[r].id, ts[tid])]_vars

C20_Witness ==
  \E r \in Slots :
    /\ pc[r] = "done" /\ call[r].type = "SendTaskRequest"
    /\ outcome[r].kind = "return"
    /\ pushLog[r].sent # <<>> /\ pushLog[r].sent[1].how = "failed"
    /\ resp[r].kind = "json" /\ resp[r].error = NO_ERROR

\* --------------------------------------------------------------------- C21
Incompatible(m) == m.given /\ m.set \cap SUPPORTED_CONTENT_TYPES = {}

\* C21: on_send_task answers with the Incompatible-Content-Types error exactly
\* when acceptedOutputModes is given and shares no element with the agent's
\* SUPPORTED_CONTENT_TYPES; a rejected request never reaches the agent and
\* writes nothing.
C21_IncompatibleModesRejected ==
  \A r \in Slots :
    (pc[r] # "idle" /\ call[r].type = "SendTaskRequest") =>
      /\ Incompatible(call[r].modes) <=>
           (pc[r] = "done" /\ resp[r].error = CONTENT_TYPE_NOT_SUPPORTED)
      /\ Incompatible(call[r].modes) =>
           outcome[r].kind = "none" /\ written[r] = <<>>

C21_Witness ==
  \E r, q \in Slots :
    /\ pc[r] = "done" /\ call[r].modes = Modes({"image"})
    /\ resp[r].error = CONTENT_TYPE_NOT_SUPPORTED
    /\ pc[q] = "done" /\ call[q].modes = Modes({"image", "text/plain"})
    /\ outcome[q].kind = "return"

\* --------------------------------------------------------------------- C22
\* C22: when tasks/cancel is processed for a working task whose agent call is
\* in flight, the task ends in canceled and the agent's eventual result is
\* ignored: nothing is written to a canceled task, neither a state nor an
\* artifact.
C22_CanceledIgnoresResult ==
  /\ \A e \in edges : e[1] = "canceled" => e[2] = "canceled"
  /\ \A r, q \in Slots :
       (/\ call[r].type \in SendTypes /\ pc[r] = "done"
        /\ call[q].type = "CancelTaskRequest" /\ pc[q] = "done"
        /\ TidOf(q) = TidOf(r)
        /\ written[q] = <<"canceled">>
        /\ Len(written[r]) = 2) =>
         /\ tasks[TidOf(r)].state = "canceled"
         /\ tasks[TidOf(r)].artifacts = <<>>

\* --------------------------------------------------------------------- C25
\* C25: both agent-card routes always return the same document, the AgentCard
\* given at construction with its unset fields left out, and no request
\* changes the card.
C25_AgentCardServedUnchanged ==
  [][/\ agent_card' = agent_card
     /\ \A i \in DOMAIN served' :
          /\ served'[i].doc = ModelDump(agent_card)
          /\ \A j \in DOMAIN served' : served'[j].doc = served'[i].doc]_vars

C25_Witness ==
  /\ \E i, j \in DOMAIN served :
       /\ served[i].route = "/.well-known/agent.json"
       /\ served[j].route = "/.well-known/agent-card.json"
       /\ i < j
  /\ \E r \in Slots : pc[r] = "done"
  /\ agent_card.description = NULL

\* --------------------------------------------------------------------- C24
\* C24: when the agent raises during on_a2a_message_send the handler does not
\* raise: it returns a response that echoes the request id, has no result and
\* carries an error.
C24_A2AAgentErrorAnswered ==
  \A r \in Slots :
    (/\ call[r].type = "A2AMessageSendRequest"
     /\ pc[r] = "done"
     /\ outcome[r].kind = "raise") =>
      /\ result[r].kind = "json"
      /\ result[r].id = RpcId(r)
      /\ result[r].task = NoTask
      /\ result[r].error # NO_ERROR

C24_Witness ==
  \E r \in Slots :
    /\ call[r].type = "A2AMessageSendRequest"
    /\ via[r] = "direct"
    /\ pc[r] = "done"
    /\ outcome[r].kind = "raise"
    /\ result[r] = JsonError(RpcId(r), INTERNAL_ERROR, 0)

\* --------------------------------------------------------------------- C28
\* C28: for every accepted message/send the typed message handed to
\* on_a2a_message_send carries the parts of the inbound params.message, in
\* order, and its taskId.
C28_MessageHandedOverIntact ==
  \A r \in Slots :
    (/\ via[r] = "http"
     /\ body[r].kind = "object" /\ body[r].method = "message/send"
     /\ invoked[r] = <<"on_a2a_message_send">>) =>
      /\ call[r].parts = body[r].params.message.parts
      /\ call[r].tid = body[r].params.message.taskId

\* --------------------------------------------------------------------- C23
\* C23: while one agent invocation is in progress another request can be
\* received and answered: no invocation in progress, a CLI subprocess call or
\* a weather stream, holds the event loop.
C23_InvocationsSuspend ==
  \A r \in DOMAIN run : InProgress(r) => loop = 0

\* --------------------------------------------------------------------- C26
\* C26: invoke_claude_cli never raises; whatever the subprocess does it
\* returns a response with exactly one of is_task_complete and
\* require_user_input set, complete only on exit code 0, and on a timeout
\* require_user_input with the timeout message.
C26_CliAlwaysAnswers ==
  \A r \in DOMAIN run :
    (run[r].agent \in CliAgents /\ run[r].pc = "done") =>
      /\ ~run[r].ret.raised
      /\ run[r].ret.complete # run[r].ret.input
      /\ run[r].ret.complete <=> (run[r].proc.kind = "exit" /\ run[r].proc.code = 0)
      /\ run[r].proc.kind = "TimeoutError" =>
           /\ run[r].ret.input
           /\ run[r].ret.content = TimeoutMessage(run[r].agent)

C26_Witness ==
  \E r, q \in DOMAIN run :
    /\ run[r].agent = "backend" /\ run[r].pc = "done"
    /\ run[r].proc.kind = "TimeoutError" /\ run[r].ret.input
    /\ run[q].agent = "frontend" /\ run[q].pc = "done"
    /\ run[q].proc.kind = "exit" /\ run[q].proc.code = 1 /\ run[q].ret.input

\* --------------------------------------------------------------------- C27
\* C27: whatever the subprocess does, a CLI agent's stream yields exactly two
\* items and ends: a progress item with neither flag set, then the result of
\* invoke_async.
C27_StreamYieldsTwo ==
  \A r \in DOMAIN run :
    (run[r].agent \in CliAgents /\ run[r].how = "stream" /\ run[r].pc = "done") =>
      /\ Len(run[r].items) = 2
      /\ ~run[r].items[1].complete /\ ~run[r].items[1].input
      /\ run[r].items[2] = run[r].ret

C27_Witness ==
  \E r, q \in DOMAIN run :
    /\ run[r].how = "stream" /\ run[r].pc = "done"
    /\ run[r].proc.kind = "FileNotFoundError" /\ Len(run[r].items) = 2
    /\ run[q].how = "stream" /\ run[q].pc = "done" /\ run[q].agent \in CliAgents
    /\ run[q].proc.kind = "exit" /\ run[q].proc.code = 0
    /\ run[q].items[2].complete

\* --------------------------------------------------------------------- C29
Count(board, p) == Cardinality({c \in Cells : board[c] = p})

\* C29: after any sequence of create, move, ai-move and reset requests, in
\* every stored game X has as many marks as O or one more, moves_count is the
\* number of non-empty cells, status and winner are get_game_status(board),
\* and while the game is in progress it is X's turn exactly when the counts
\* are equal.
C29_GameStateConsistent ==
  \A g \in GameIds :
    games_db[g].exists =>
      LET game == games_db[g]
          x    == Count(game.board, "X")
          o    == Count(game.board, "O")
      IN  /\ x - o \in {0, 1}
          /\ game.moves_count = x + o
          /\ <<game.status, game.winner>> = get_game_status(game.board)
          /\ game.status = "in_progress" =>
               (game.current_player = "X" <=> x = o)

C29_Witness ==
  \E g \in GameIds :
    /\ games_db[g].exists
    /\ games_db[g].status = "o_wins"
    /\ games_db[g].moves_count = 6
    /\ last.op = "ai" /\ last.detail = "ok"

\* --------------------------------------------------------------------- C30
\* C30: a rejected move or ai-move leaves every game as it was, and a game
\* that is finished is changed by nothing but a reset or a delete of it.
C30_RejectedMovesChangeNothing ==
  [][/\ last'.detail # "ok" => games_db' = games_db
     /\ \A g \in GameIds :
          (/\ games_db[g].exists
           /\ games_db[g].status # "in_progress"
           /\ games_db'[g] # games_db[g]) =>
             /\ last'.op \in {"reset", "delete"}
             /\ last'.game = g]_vars

C30_Witness ==
  \E g \in GameIds :
    /\ games_db[g].exists
    /\ games_db[g].status = "draw"
    /\ last.op = "move" /\ last.detail = "finished" /\ last.code = 400

====
